---- MODULE Spec2Model ----
(***************************************************************************)
(* Model of trasposa.py: the trasposa() pipeline (load, time-stretch,      *)
(* pitch-shift, normalisation, save or play), normalize_audio as a pure    *)
(* function, and play_audio with its key-listener thread.                  *)
(*                                                                         *)
(* Samples, speeds and gains are exact rationals <<num, den>> (den > 0,    *)
(* lowest terms), so that scaling, peaks and ratios are computed, not      *)
(* assumed.  Floating-point rounding is not represented.                   *)
(*                                                                         *)
(* The librosa calls are modelled by their contract: time_stretch raises   *)
(* ParameterError for rate <= 0 and otherwise returns int(round(n / rate)) *)
(* samples; pitch_shift stretches by 2^(-n_steps/12), resamples by the     *)
(* same ratio and fixes the length to the input length.  The sample values *)
(* of the resynthesis are abstracted to the time-axis mapping of the input *)
(* samples.                                                                *)
(***************************************************************************)
EXTENDS Integers, Sequences, FiniteSets, TLC

\* ------------------------------------------------------------------ bounds
MaxLen == 2         \* longest signal stored in the input file
MaxNormLen == 3     \* longest signal handed to normalize_audio directly
MaxKeys == 2        \* key presses during one playback

\* --------------------------------------------------------------- constants
HopLength == 512    \* librosa default hop (n_fft // 4) used by time_stretch
DefaultPeakDb == -1 \* normalize_audio(y, peak_db=-1.0)

\* --------------------------------------------------------------- rationals
Abs(n) == IF n < 0 THEN -n ELSE n

RECURSIVE GCD(_, _)
GCD(a, b) == IF b = 0 THEN a ELSE GCD(b, a % b)

\* the rational n/d in lowest terms with a positive denominator (d # 0)
Rat(n, d) ==
    LET g == GCD(Abs(n), Abs(d))
        s == IF d < 0 THEN -1 ELSE 1
    IN  << (s * n) \div g, (s * d) \div g >>

Zero == <<0, 1>>
One == <<1, 1>>

RMul(a, b) == Rat(a[1] * b[1], a[2] * b[2])
RDiv(a, b) == Rat(a[1] * b[2], a[2] * b[1])
RAbs(a) == << Abs(a[1]), a[2] >>
RLess(a, b) == a[1] * b[2] < b[1] * a[2]
RLeq(a, b) == a[1] * b[2] <= b[1] * a[2]

RECURSIVE Pow(_, _)
Pow(b, k) == IF k = 0 THEN 1 ELSE b * Pow(b, k - 1)

\* b^k for any integer k
RatPow(b, k) == IF k >= 0 THEN Rat(Pow(b, k), 1) ELSE Rat(1, Pow(b, -k))

\* Python 3 round(): n/d to the nearest integer, ties to even (n >= 0, d > 0)
RoundHalfEven(n, d) ==
    LET q == n \div d
        r == n % d
    IN  IF 2 * r < d THEN q
        ELSE IF 2 * r > d THEN q + 1
        ELSE IF q % 2 = 0 THEN q ELSE q + 1

\* ceil(n/d) for n >= 0, d > 0
Ceil(n, d) == (n + d - 1) \div d

\* floor(n/d) for n >= 0, d > 0
Floor(n, d) == n \div d

\* ----------------------------------------------------------------- options
None == <<>>
Some(v) == <<v>>

\* Python truthiness of an optional string: None and "" are false
Truthy(p) == p # None /\ p[1] # ""

\* ---------------------------------------------------------------- numpy
\* np.abs(y)
NpAbs(y) == [i \in 1..Len(y) |-> RAbs(y[i])]

\* np.max(y) of a non-empty array
RECURSIVE NpMaxFrom(_, _)
NpMaxFrom(y, i) ==
    IF i = Len(y) THEN y[i]
    ELSE LET m == NpMaxFrom(y, i + 1)
         IN  IF RLess(y[i], m) THEN m ELSE y[i]

NpMax(y) == NpMaxFrom(y, 1)

\* a call's outcome: the value returned, or the exception raised
Ok(v) == [exc |-> "none", val |-> v]
Raised(e) == [exc |-> e, val |-> <<>>]

\* 10 ** (peak_db / 20): exact for multiples of 20 dB, four decimals for the
\* -1 dB default and for -6 dB
DbToLinear(peak_db) ==
    IF peak_db % 20 = 0 THEN RatPow(10, peak_db \div 20)
    ELSE IF peak_db = -1 THEN Rat(8913, 10000)
    ELSE Rat(5012, 10000)

\* normalize_audio with the gain computed without dividing by the peak
normalize_audio_nopeak(y, peak_db) ==
    IF Len(y) = 0 THEN Raised("ValueError")
    ELSE LET peak == NpMax(NpAbs(y))
         IN  IF peak = Zero THEN Ok(y)
             ELSE LET target == DbToLinear(peak_db)
                  IN  Ok([i \in 1..Len(y) |-> RMul(y[i], target)])

\* normalize_audio with the peak taken as max(y) instead of max(|y|)
normalize_audio_noabs(y, peak_db) ==
    IF Len(y) = 0 THEN Raised("ValueError")
    ELSE LET peak == NpMax(y)
         IN  IF peak = Zero THEN Ok(y)
             ELSE LET target == DbToLinear(peak_db)
                      gain == RDiv(target, peak)
                  IN  Ok([i \in 1..Len(y) |-> RMul(y[i], gain)])

\* normalize_audio(y, peak_db): np.max of an empty array raises ValueError;
\* a zero peak returns y itself; otherwise y * (target / peak)
normalize_audio(y, peak_db) ==
    IF Len(y) = 0 THEN Raised("ValueError")
    ELSE LET peak == NpMax(NpAbs(y))
         IN  IF peak = Zero THEN Ok(y)
             ELSE LET target == DbToLinear(peak_db)
                      gain == RDiv(target, peak)
                  IN  Ok([i \in 1..Len(y) |-> RMul(y[i], gain)])

\* --------------------------------------------------------------- librosa
\* the input sample under output position i when the time axis is scaled by
\* rate (n = Len(y) > 0)
SourceIndex(i, rate, n) ==
    LET k == Floor((i - 1) * rate[1], rate[2]) + 1
    IN  IF k > n THEN n ELSE k

\* y re-timed to len samples, advancing rate input samples per output sample
Retime(y, len, rate) ==
    IF Len(y) = 0 THEN [i \in 1..len |-> Zero]
    ELSE [i \in 1..len |-> y[SourceIndex(i, rate, Len(y))]]

\* librosa.effects.time_stretch(y, rate): len_stretch = int(round(n / rate))
time_stretch(y, rate) ==
    Retime(y, RoundHalfEven(Len(y) * rate[2], rate[1]), rate)

\* librosa.resample by ratio target_sr / orig_sr: ceil(n * ratio) samples
resample(y, ratio) ==
    Retime(y, Ceil(Len(y) * ratio[1], ratio[2]), RDiv(One, ratio))

\* librosa.util.fix_length(y, size): crop, or pad with zeros
fix_length(y, size) ==
    [i \in 1..size |-> IF i <= Len(y) THEN y[i] ELSE Zero]

\* 2.0 ** (-n_steps / 12), for whole octaves
PitchRate(n_steps) == RatPow(2, (-n_steps) \div 12)

\* change_speed returning the input unchanged for a non-positive rate
change_speed_clamped(y, rate) ==
    IF RLeq(rate, Zero) THEN Ok(y) ELSE Ok(time_stretch(y, rate))

\* change_speed producing n * rate samples instead of n / rate
change_speed_inverse(y, rate) ==
    IF RLeq(rate, Zero) THEN Raised("ParameterError")
    ELSE Ok(Retime(y, RoundHalfEven(Len(y) * rate[1], rate[2]), rate))

\* change_speed(y, rate): time_stretch rejects rate <= 0
change_speed(y, rate) ==
    IF RLeq(rate, Zero) THEN Raised("ParameterError")
    ELSE Ok(time_stretch(y, rate))

\* change_pitch(y, sr, semitones): stretch by the pitch rate, resample from
\* sr / rate back to sr, crop or pad to the input length
change_pitch(y, sr, semitones) ==
    LET rate == PitchRate(semitones)
    IN  Ok(fix_length(resample(time_stretch(y, rate), rate), Len(y)))

\* ------------------------------------------------------------------ inputs
Samples == { <<-2, 1>>, <<0, 1>>, <<1, 2>> }
SampleRates == {8000, 44100}
Speeds == { <<-1, 1>>, <<0, 1>>, <<1, 2>>, <<1, 1>>, <<2, 1>> }
Semitones == {-12, 0, 12}
PeakDbs == {-40, -20, -6, -1, 0, 20}
InputPaths == {"in.wav", "missing.wav"}
OutputPaths == {None, Some(""), Some("out.wav")}

SignalsUpTo(n) == UNION { [1..k -> Samples] : k \in 0..n }

\* keys as pynput delivers them: a KeyCode with a character, a KeyCode whose
\* char is None, and a special Key, which has no char attribute
Keys == { [char |-> Some("q")], [char |-> Some("Q")], [char |-> Some("x")],
          [char |-> None], [name |-> "esc"] }
NoKey == [name |-> "none"]

\* str.lower() on the characters above
Lower(c) == IF c = "Q" THEN "q" ELSE c

VARIABLES
    disk,           \* content of the file "in.wav": [y, sr]
    input_path, semitones, speed, normalize, output_path,   \* arguments
    pc,             \* position of the call of trasposa
    y, sr,          \* locals of trasposa
    trace,          \* stages completed so far, in order
    err,            \* exception propagating out of trasposa
    exitCode,       \* exit status of main: -1 while running
    ret,            \* value returned by trasposa
    saved,          \* calls of sf.write: [path, y, sr]
    played,         \* calls of sd.play: [y, sr]
    sdState,        \* sounddevice stream: idle, playing, finished, stopped
    listener,       \* key-listener thread: none, starting, listening, ended
    keys,           \* number of key presses so far
    lastKey,        \* the last key pressed
    npc, ny, npeak_db, nres1, nres2     \* direct calls of normalize_audio

args == <<disk, input_path, semitones, speed, normalize, output_path>>
locals == <<y, sr>>
outputs == <<saved, played>>
playback == <<sdState, listener, keys, lastKey>>
harness == <<npc, ny, npeak_db, nres1, nres2>>
vars == <<args, pc, locals, trace, err, exitCode, ret, outputs, playback,
          harness>>

\* ------------------------------------------------------------------- Init
CallIdle ==
    /\ y = <<>> /\ sr = 0
    /\ trace = <<>>
    /\ err = "none"
    /\ exitCode = -1
    /\ ret = <<>>
    /\ saved = <<>> /\ played = <<>>
    /\ sdState = "idle" /\ listener = "none"
    /\ keys = 0 /\ lastKey = NoKey

HarnessIdle ==
    /\ npc = "idle"
    /\ ny = <<>> /\ npeak_db = DefaultPeakDb
    /\ nres1 = Ok(<<>>) /\ nres2 = Ok(<<>>)

\* main() about to call trasposa with the parsed arguments
Init ==
    /\ disk \in [y : SignalsUpTo(MaxLen), sr : SampleRates]
    /\ input_path \in InputPaths
    /\ semitones \in Semitones
    /\ speed \in Speeds
    /\ normalize \in BOOLEAN
    /\ output_path \in OutputPaths
    /\ pc = "load"
    /\ CallIdle
    /\ HarnessIdle

\* -------------------------------------------------------------- trasposa
\* an exception leaves trasposa and main uncaught: the interpreter exits 1
Raise(e) ==
    /\ pc' = "raised"
    /\ err' = e
    /\ exitCode' = 1
    /\ UNCHANGED <<locals, trace, ret>>

\* return y, sr; main returns and the interpreter exits 0
Return ==
    /\ pc' = "done"
    /\ ret' = <<y, sr>>
    /\ exitCode' = 0
    /\ UNCHANGED <<locals, err>>

\* y, sr = load_audio(input_path)
LoadAudio ==
    /\ pc = "load"
    /\ IF input_path = "in.wav"
       THEN /\ y' = disk.y
            /\ sr' = disk.sr
            /\ trace' = Append(trace, "load")
            /\ pc' = "speed"
            /\ UNCHANGED <<err, exitCode, ret>>
       ELSE Raise("LoadError")
    /\ UNCHANGED <<args, outputs, playback, harness>>

\* the speed stage calling change_speed whatever the speed
SpeedStageAlways ==
    /\ pc = "speed"
    /\ LET r == change_speed(y, speed)
       IN  IF r.exc # "none" THEN Raise(r.exc)
           ELSE /\ y' = r.val
                /\ trace' = Append(trace, "stretch")
                /\ pc' = "pitch"
                /\ UNCHANGED <<sr, err, exitCode, ret>>
    /\ UNCHANGED <<args, outputs, playback, harness>>

\* if speed != 1.0: y = change_speed(y, speed)
SpeedStage ==
    /\ pc = "speed"
    /\ IF speed # One
       THEN LET r == change_speed(y, speed)
            IN  IF r.exc # "none" THEN Raise(r.exc)
                ELSE /\ y' = r.val
                     /\ trace' = Append(trace, "stretch")
                     /\ pc' = "pitch"
                     /\ UNCHANGED <<sr, err, exitCode, ret>>
       ELSE /\ pc' = "pitch"
            /\ UNCHANGED <<locals, trace, err, exitCode, ret>>
    /\ UNCHANGED <<args, outputs, playback, harness>>

\* if semitones != 0: y = change_pitch(y, sr, semitones)
PitchStage ==
    /\ pc = "pitch"
    /\ IF semitones # 0
       THEN LET r == change_pitch(y, sr, semitones)
            IN  /\ y' = r.val
                /\ trace' = Append(trace, "pitch")
                /\ pc' = "normalize"
                /\ UNCHANGED <<sr, err, exitCode, ret>>
       ELSE /\ pc' = "normalize"
            /\ UNCHANGED <<locals, trace, err, exitCode, ret>>
    /\ UNCHANGED <<args, outputs, playback, harness>>

\* the normalisation stage ignoring the normalize flag
NormalizeStageAlways ==
    /\ pc = "normalize"
    /\ LET r == normalize_audio(y, DefaultPeakDb)
       IN  IF r.exc # "none" THEN Raise(r.exc)
           ELSE /\ y' = r.val
                /\ trace' = Append(trace, "normalize")
                /\ pc' = "output"
                /\ UNCHANGED <<sr, err, exitCode, ret>>
    /\ UNCHANGED <<args, outputs, playback, harness>>

\* if normalize: y = normalize_audio(y)
NormalizeStage ==
    /\ pc = "normalize"
    /\ IF normalize
       THEN LET r == normalize_audio(y, DefaultPeakDb)
            IN  IF r.exc # "none" THEN Raise(r.exc)
                ELSE /\ y' = r.val
                     /\ trace' = Append(trace, "normalize")
                     /\ pc' = "output"
                     /\ UNCHANGED <<sr, err, exitCode, ret>>
       ELSE /\ pc' = "output"
            /\ UNCHANGED <<locals, trace, err, exitCode, ret>>
    /\ UNCHANGED <<args, outputs, playback, harness>>

\* if output_path: save_audio(y, sr, output_path); return y, sr
SaveAudio ==
    /\ pc = "output"
    /\ Truthy(output_path)
    /\ saved' = Append(saved, [path |-> output_path[1], y |-> y, sr |-> sr])
    /\ trace' = Append(trace, "save")
    /\ Return
    /\ UNCHANGED <<args, played, playback, harness>>

\* ------------------------------------------------------------ play_audio
\* else: play_audio(y, sr), up to thread.start()
PlayAudio ==
    /\ pc = "output"
    /\ ~Truthy(output_path)
    /\ listener' = "starting"
    /\ trace' = Append(trace, "play")
    /\ pc' = "sd_play"
    /\ UNCHANGED <<args, locals, err, exitCode, ret, outputs, sdState, keys,
                   lastKey, harness>>

\* sd.play(y, sr): starts the stream and returns
SdPlay ==
    /\ pc = "sd_play"
    /\ played' = Append(played, [y |-> y, sr |-> sr])
    /\ sdState' = "playing"
    /\ pc' = "sd_wait"
    /\ UNCHANGED <<args, locals, trace, err, exitCode, ret, saved, listener,
                   keys, lastKey, harness>>

\* sd.wait() returns once the stream has ended; play_audio does not join the
\* daemon thread; return y, sr
SdWait ==
    /\ pc = "sd_wait"
    /\ sdState \in {"finished", "stopped"}
    /\ Return
    /\ UNCHANGED <<args, trace, outputs, playback, harness>>

\* the stream plays its last sample
PlaybackEnds ==
    /\ sdState = "playing"
    /\ sdState' = "finished"
    /\ UNCHANGED <<args, pc, locals, trace, err, exitCode, ret, outputs,
                   listener, keys, lastKey, harness>>

\* listen_for_q: the thread runs and keyboard.Listener starts receiving keys
ListenForQ ==
    /\ listener = "starting"
    /\ pc \in {"sd_play", "sd_wait"}
    /\ listener' = "listening"
    /\ UNCHANGED <<args, pc, locals, trace, err, exitCode, ret, outputs,
                   sdState, keys, lastKey, harness>>

\* on_press(key): TRUE when it calls sd.stop() and returns False
on_press(key) ==
    IF "char" \in DOMAIN key
    THEN key.char # None /\ Lower(key.char[1]) = "q"
    ELSE FALSE

\* sd.stop(): ends a running stream, otherwise nothing
SdStop(s) == IF s = "playing" THEN "stopped" ELSE s

\* the user presses a key while play_audio runs; only a running listener
\* receives it
KeyPress ==
    /\ pc \in {"sd_play", "sd_wait"}
    /\ keys < MaxKeys
    /\ \E key \in Keys :
        /\ lastKey' = key
        /\ keys' = keys + 1
        /\ IF listener = "listening" /\ on_press(key)
           THEN /\ sdState' = SdStop(sdState)
                /\ listener' = "ended"
           ELSE UNCHANGED <<sdState, listener>>
    /\ UNCHANGED <<args, pc, locals, trace, err, exitCode, ret, outputs,
                   harness>>

Next ==
    \/ LoadAudio
    \/ SpeedStage
    \/ PitchStage
    \/ NormalizeStage
    \/ SaveAudio
    \/ PlayAudio
    \/ SdPlay
    \/ SdWait
    \/ PlaybackEnds
    \/ ListenForQ
    \/ KeyPress

Spec == Init /\ [][Next]_vars

\* --------------------------------------------- normalize_audio, directly
InitNorm ==
    /\ disk = [y |-> <<>>, sr |-> 8000]
    /\ input_path = "in.wav"
    /\ semitones = 0
    /\ speed = One
    /\ normalize = FALSE
    /\ output_path = None
    /\ pc = "idle"
    /\ CallIdle
    /\ npc = "start"
    /\ ny \in SignalsUpTo(MaxNormLen)
    /\ npeak_db \in PeakDbs
    /\ nres1 = Ok(<<>>) /\ nres2 = Ok(<<>>)

\* nres1 = normalize_audio(ny, npeak_db)
NormalizeOnce ==
    /\ npc = "start"
    /\ nres1' = normalize_audio(ny, npeak_db)
    /\ npc' = "once"
    /\ UNCHANGED <<args, pc, locals, trace, err, exitCode, ret, outputs,
                   playback, ny, npeak_db, nres2>>

\* nres2 = normalize_audio(nres1, npeak_db); an exception of the inner call
\* propagates
NormalizeTwice ==
    /\ npc = "once"
    /\ nres2' = IF nres1.exc # "none" THEN nres1
                ELSE normalize_audio(nres1.val, npeak_db)
    /\ npc' = "twice"
    /\ UNCHANGED <<args, pc, locals, trace, err, exitCode, ret, outputs,
                   playback, ny, npeak_db, nres1>>

NextNorm == NormalizeOnce \/ NormalizeTwice

SpecNorm == InitNorm /\ [][NextNorm]_vars

\* ================================================================ claims
IsPrefix(s, t) == Len(s) <= Len(t) /\ \A i \in 1..Len(s) : s[i] = t[i]
AllZero(s) == \A i \in 1..Len(s) : s[i] = Zero
PeakOf(s) == NpMax(NpAbs(s))
Sign(a) == IF a[1] < 0 THEN -1 ELSE IF a[1] = 0 THEN 0 ELSE 1

\* the processing stages the arguments ask for, in the order of the spec
ExpectedStages ==
    <<"load">>
    \o (IF speed # One THEN <<"stretch">> ELSE <<>>)
    \o (IF semitones # 0 THEN <<"pitch">> ELSE <<>>)
    \o (IF normalize THEN <<"normalize">> ELSE <<>>)

\* C1: the stages of a call run in the fixed order load, stretch (iff
\* speed != 1), pitch shift (iff semitones != 0), normalisation (iff
\* normalize), output, each at most once; at every moment the stages run so
\* far are a prefix of that order, and a completed call has run all of it.
StageOrder ==
    \E o \in {"save", "play"} :
        /\ IsPrefix(trace, ExpectedStages \o <<o>>)
        /\ pc = "done" => trace = ExpectedStages \o <<o>>

StageOrderWitness ==
    /\ pc = "done"
    /\ speed # One /\ semitones # 0 /\ normalize
    /\ trace = <<"load", "stretch", "pitch", "normalize", "save">>

\* C2: with speed = 1.0, semitones = 0 and normalize = false, trasposa runs
\* no stretch, pitch or normalisation stage and returns the loaded signal
\* and the loaded sample rate.
Identity ==
    (pc = "done" /\ speed = One /\ semitones = 0 /\ ~normalize)
        => /\ ret = <<disk.y, disk.sr>>
           /\ trace \in {<<"load", "save">>, <<"load", "play">>}

IdentityWitness ==
    /\ pc = "done" /\ speed = One /\ semitones = 0 /\ ~normalize
    /\ Len(disk.y) = MaxLen /\ ~AllZero(disk.y)
    /\ PeakOf(disk.y) # DbToLinear(DefaultPeakDb)

\* C3: for a non-empty signal with a non-zero peak, normalize_audio
\* multiplies every sample by the one gain 10^(peak_db/20) / peak: the
\* result has the length of the input, its peak is 10^(peak_db/20), and the
\* sign of every sample and the ratio of any two samples are kept.
NormalizeScales ==
    (npc # "start" /\ Len(ny) > 0 /\ PeakOf(ny) # Zero)
        => /\ nres1.exc = "none"
           /\ Len(nres1.val) = Len(ny)
           /\ \A i \in 1..Len(ny) :
                nres1.val[i]
                    = RMul(ny[i], RDiv(DbToLinear(npeak_db), PeakOf(ny)))
           /\ PeakOf(nres1.val) = DbToLinear(npeak_db)
           /\ \A i \in 1..Len(ny) : Sign(nres1.val[i]) = Sign(ny[i])
           /\ \A i, j \in 1..Len(ny) :
                RMul(nres1.val[i], ny[j]) = RMul(nres1.val[j], ny[i])

NormalizeScalesWitness ==
    /\ npc = "once"
    /\ Len(ny) >= 2
    /\ ny[1] = <<-2, 1>> /\ ny[2] = <<1, 2>>
    /\ npeak_db = -20
    /\ nres1.val[1] = <<-1, 10>>

\* C4: a call with speed <= 0 is rejected: no stretch, pitch or
\* normalisation stage completes, the signal is not altered, nothing is
\* saved or played, the call never returns, and the exception (the
\* ParameterError once the file is loaded) leaves main with exit status 1.
InvalidSpeedRejected ==
    RLeq(speed, Zero)
        => /\ pc \in {"load", "speed", "raised"}
           /\ trace \in {<<>>, <<"load">>}
           /\ y \in {<<>>, disk.y}
           /\ saved = <<>> /\ played = <<>> /\ sdState = "idle"
           /\ ret = <<>> /\ exitCode # 0
           /\ pc = "raised"
                => /\ exitCode = 1
                   /\ err = IF trace = <<>> THEN "LoadError"
                            ELSE "ParameterError"

InvalidSpeedRejectedWitness ==
    /\ pc = "raised" /\ err = "ParameterError"
    /\ RLess(speed, Zero)
    /\ Len(y) > 0
    /\ normalize /\ semitones # 0 /\ output_path = Some("out.wav")

\* C5: normalize_audio returns a signal of length 0 unchanged and raises no
\* error.
EmptyUnchanged ==
    (npc # "start" /\ Len(ny) = 0) => nres1 = Ok(ny)

\* C6: a non-empty all-zero input to trasposa yields an all-zero output for
\* every speed > 0, every semitone shift and either value of normalize: once
\* loaded, the call raises nothing and returns an all-zero signal.
SilenceInSilenceOut ==
    (trace # <<>> /\ Len(disk.y) > 0 /\ AllZero(disk.y) /\ RLess(Zero, speed))
        => /\ pc # "raised"
           /\ AllZero(y)
           /\ pc = "done" => AllZero(ret[1])

\* C7: a completed call has invoked exactly one of save_audio and
\* play_audio, once, on the processed signal and the loaded sample rate:
\* play_audio iff the output path is absent, save_audio to the given path
\* iff an output path was given.
OutputRouting ==
    pc = "done"
        => /\ Len(saved) + Len(played) = 1
           /\ Len(played) = 1 <=> output_path = None
           /\ Len(saved) = 1 <=> output_path # None
           /\ \A i \in 1..Len(saved) :
                saved[i] = [path |-> output_path[1], y |-> ret[1],
                            sr |-> disk.sr]
           /\ \A i \in 1..Len(played) :
                played[i] = [y |-> ret[1], sr |-> disk.sr]

\* C8: the signal returned for an input of N samples and speed S has a
\* length within half a sample of N / S, whatever the semitone shift, and
\* so within one hop length; with S = 1 it has N samples.
DurationLaw ==
    pc = "done"
        => LET d == Abs(Len(ret[1]) * speed[1] - Len(disk.y) * speed[2])
           IN  /\ 2 * d <= speed[1]
               /\ d <= HopLength * speed[1]
               /\ speed = One => Len(ret[1]) = Len(disk.y)

DurationLawWitness ==
    /\ pc = "done"
    /\ speed = <<1, 2>> /\ semitones # 0
    /\ Len(disk.y) = MaxLen
    /\ Len(ret[1]) = 2 * MaxLen

\* C9: normalising the result of normalize_audio again with the same
\* peak_db gives that result again, for every signal, all-zero ones
\* included.
NormalizeIdempotent ==
    npc = "twice" => nres2 = nres1

NormalizeIdempotentWitness ==
    /\ npc = "twice"
    /\ nres1.exc = "none"
    /\ nres1.val # ny
    /\ nres2 = nres1
    /\ npeak_db = -6

IsQ(key) == key \in {[char |-> Some("q")], [char |-> Some("Q")]}

\* a key press: q or Q during playback stops the stream and ends the
\* listener; any other key leaves both as they are
KeyRule ==
    keys' = keys + 1
        => IF IsQ(lastKey')
           THEN sdState = "playing"
                    => sdState' = "stopped" /\ listener' = "ended"
           ELSE sdState' = sdState /\ listener' = listener

\* C10: play_audio returns only after the playback has finished or has been
\* stopped by q/Q; a q/Q press during playback stops the playback and ends
\* the listener, and any other key does neither.
PlaybackBlocks ==
    /\ [](pc = "done" /\ played # <<>> => sdState \in {"finished", "stopped"})
    /\ [][KeyRule]_vars

====
